---- MODULE Spec2Model ----
(***************************************************************************)
(* Model of task-cli.js, a command-line task tracker that keeps its tasks  *)
(* in tasks.json.  One invocation of the program is one action; the file   *)
(* tasks.json is the only state that survives an invocation.               *)
(*                                                                         *)
(* Texts that the code parses (the id argument) are sequences of           *)
(* one-character strings, so that parseInt is modelled by what it does.    *)
(***************************************************************************)
EXTENDS Integers, Sequences, FiniteSets, TLC

\* ------------------------------------------------------------------ bounds
MaxId == 3        \* an add is taken only while the id it assigns is <= MaxId
MaxTasks == 2     \* an add is taken only while the file holds < MaxTasks tasks
MaxClock == 1     \* timestamps range over 0..MaxClock

\* ------------------------------------------------------------------ inputs
\* id arguments, as texts: ids of tasks, and texts that are no positive
\* integer (empty, letters, zero, negative, digits followed by a letter)
IdArgs == {<<"1">>, <<"2">>, <<"3">>, <<>>, <<"a">>, <<"0">>,
           <<"-", "1">>, <<"1", "a">>}
MarkIdArgs == {<<"1">>, <<"2">>}

Undefined == "<undefined>"                 \* a missing command-line argument
AddDescArgs == {"a", "", Undefined}
UpdateDescArgs == {"b", "", Undefined}
FilterArgs == {Undefined, "all", "todo", "in-progress", "done", "DONE", "bogus"}
MarkCommands == {"mark-in-progress", "mark-done"}
OtherCommands == {Undefined, "frobnicate"}
Statuses == {"todo", "in-progress", "done"}

\* JavaScript's falsy test on a string-or-undefined value (!description)
Falsy(x) == x \in {"", Undefined}

\* String.prototype.toLowerCase on the filter texts of the model
toLowerCase(s) == IF s = "DONE" THEN "done" ELSE s

VARIABLES
    file,        \* content of tasks.json: [kind, tasks]
    clock,       \* the last time read by new Date()
    last,        \* the last invocation: its command line and what it printed
    created,     \* history: every id an add has assigned
    diskFaulty,  \* environment: whether writeFileSync may fail
    pc,          \* concurrent invocations: position of each process
    req,         \* concurrent invocations: command line of each process
    snap         \* concurrent invocations: file content each process read

vars == <<file, clock, last, created, diskFaulty, pc, req, snap>>

\* ------------------------------------------------------------------ store
AbsentFile == [kind |-> "absent", tasks |-> <<>>]
ArrayFile(tasks) == [kind |-> "array", tasks |-> tasks]

\* kinds of content of tasks.json:
\*   absent, empty (zero bytes), garbage (text that is not JSON),
\*   object ("{}"), null ("null"), array (a JSON array of task objects)
FileKinds == {"absent", "empty", "garbage", "object", "null", "array"}

\* loadTasks: value is what the caller gets back ("array" with tasks, or the
\* non-array value JSON.parse produced); msgs is what was printed.
loadTasks(f) ==
    IF f.kind \in {"absent", "empty"}
    THEN [value |-> "array", tasks |-> <<>>, msgs |-> <<>>]
    ELSE IF f.kind = "garbage"
    THEN [value |-> "array", tasks |-> <<>>, msgs |-> <<"Corrupt">>]
    ELSE IF f.kind = "array"
    THEN [value |-> "array", tasks |-> f.tasks, msgs |-> <<>>]
    ELSE [value |-> f.kind, tasks |-> <<>>, msgs |-> <<>>]

\* saveTasks: the file written, or a reported write failure
saveTasks(tasks, ioOk) ==
    IF ioOk
    THEN [saved |-> TRUE, file |-> ArrayFile(tasks), msgs |-> <<>>]
    ELSE [saved |-> FALSE, file |-> AbsentFile, msgs |-> <<"WriteFailure">>]

RECURSIVE reduceMax(_, _, _)
reduceMax(tasks, i, max) ==
    IF i > Len(tasks) THEN max
    ELSE reduceMax(tasks, i + 1, IF tasks[i].id > max THEN tasks[i].id ELSE max)

getNextIdByLength(tasks) == Len(tasks) + 1

getNextIdNoIncrement(tasks) ==
    IF Len(tasks) = 0 THEN 1 ELSE reduceMax(tasks, 1, 0)

getNextId(tasks) ==
    IF Len(tasks) = 0 THEN 1 ELSE reduceMax(tasks, 1, 0) + 1

\* ------------------------------------------------------------------ parseInt
HexDigits == <<"0", "1", "2", "3", "4", "5", "6", "7", "8", "9",
               "a", "b", "c", "d", "e", "f">>
DigitValue(c) == (CHOOSE i \in 1..Len(HexDigits) : HexDigits[i] = c) - 1
IsDigit(c, radix) ==
    \E i \in 1..Len(HexDigits) : HexDigits[i] = c /\ i - 1 < radix

RECURSIVE StripLeadingSpace(_)
StripLeadingSpace(s) ==
    IF Len(s) > 0 /\ s[1] = " " THEN StripLeadingSpace(Tail(s)) ELSE s

RECURSIVE DigitPrefixLen(_, _)
DigitPrefixLen(s, radix) ==
    IF Len(s) > 0 /\ IsDigit(s[1], radix)
    THEN 1 + DigitPrefixLen(Tail(s), radix) ELSE 0

RECURSIVE DigitsValue(_, _, _)
DigitsValue(s, radix, acc) ==
    IF Len(s) = 0 THEN acc
    ELSE DigitsValue(Tail(s), radix, acc * radix + DigitValue(s[1]))

NaN == [nan |-> TRUE, val |-> 0]
isNaN(n) == n.nan

\* parseInt(text) with no radix: leading blanks, a sign, an optional 0x
\* prefix, then the longest run of digits; NaN when that run is empty.
parseInt(text) ==
    LET t == StripLeadingSpace(text)
        signed == Len(t) > 0 /\ t[1] \in {"+", "-"}
        sign == IF Len(t) > 0 /\ t[1] = "-" THEN -1 ELSE 1
        u == IF signed THEN Tail(t) ELSE t
        hex == Len(u) >= 2 /\ u[1] = "0" /\ u[2] \in {"x", "X"}
        radix == IF hex THEN 16 ELSE 10
        v == IF hex THEN Tail(Tail(u)) ELSE u
        n == DigitPrefixLen(v, radix)
    IN  IF n = 0 THEN NaN
        ELSE [nan |-> FALSE, val |-> sign * DigitsValue(SubSeq(v, 1, n), radix, 0)]

\* ------------------------------------------------------------------ commands
\* What one command did: whether it wrote the file and what it wrote, the
\* messages it printed, whether it ended in an uncaught TypeError, the
\* tasks a list printed and the id an add assigned (0: none).
Outcome(saved, f, msgs, crashed, shown, newId) ==
    [saved |-> saved, file |-> f, msgs |-> msgs, crashed |-> crashed,
     shown |-> shown, newId |-> newId]

Reported(f, msgs) == Outcome(FALSE, f, msgs, FALSE, <<>>, 0)
TypeError(f, msgs) == Outcome(FALSE, f, msgs, TRUE, <<>>, 0)

NewTask(id, description, now) ==
    [id |-> id, description |-> description, status |-> "todo",
     createdAt |-> now, updatedAt |-> now]

addTaskUnshift(f, description, now, ioOk) ==
    IF Falsy(description) THEN Reported(f, <<"InvalidInput">>)
    ELSE LET ld == loadTasks(f) IN
         IF ld.value # "array" THEN TypeError(f, ld.msgs)
         ELSE LET newId == getNextId(ld.tasks)
                  tasks == <<NewTask(newId, description, now)>> \o ld.tasks
                  sv == saveTasks(tasks, ioOk)
              IN  Outcome(sv.saved, sv.file, ld.msgs \o sv.msgs \o <<"Added">>,
                          FALSE, <<>>, newId)

addTask(f, description, now, ioOk) ==
    IF Falsy(description) THEN Reported(f, <<"InvalidInput">>)
    ELSE LET ld == loadTasks(f) IN
         \* getNextId reads tasks.length / calls tasks.reduce
         IF ld.value # "array" THEN TypeError(f, ld.msgs)
         ELSE LET newId == getNextId(ld.tasks)
                  tasks == Append(ld.tasks, NewTask(newId, description, now))
                  sv == saveTasks(tasks, ioOk)
              IN  Outcome(sv.saved, sv.file, ld.msgs \o sv.msgs \o <<"Added">>,
                          FALSE, <<>>, newId)

validStatuses == {"todo", "in-progress", "done"}

listTasks(f, statusFilter) ==
    LET ld == loadTasks(f) IN
    IF ld.value = "null" THEN TypeError(f, ld.msgs)          \* null.length
    ELSE IF ld.value = "array" /\ Len(ld.tasks) = 0
    THEN Reported(f, ld.msgs \o <<"NoTasks">>)
    ELSE LET filter == toLowerCase(IF Falsy(statusFilter) THEN "all"
                                   ELSE statusFilter)
             matching == SelectSeq(ld.tasks, LAMBDA t : t.status = filter)
         IN  IF filter = "all"
             THEN IF ld.value # "array"
                  THEN TypeError(f, ld.msgs \o <<"ListHeader">>)  \* {}.forEach
                  ELSE Outcome(FALSE, f, ld.msgs \o <<"Listed">>, FALSE,
                               ld.tasks, 0)
             ELSE IF filter \notin validStatuses
             THEN Reported(f, ld.msgs \o <<"InvalidInput">>)
             ELSE IF ld.value # "array" THEN TypeError(f, ld.msgs) \* {}.filter
             ELSE IF Len(matching) = 0
             THEN Reported(f, ld.msgs \o <<"NoMatch">>)
             ELSE Outcome(FALSE, f, ld.msgs \o <<"Listed">>, FALSE, matching, 0)

\* Array.prototype.findIndex, 1-based; 0 stands for -1
findIndex(tasks, taskId) ==
    IF \E i \in 1..Len(tasks) : tasks[i].id = taskId
    THEN CHOOSE i \in 1..Len(tasks) :
            /\ tasks[i].id = taskId
            /\ \A j \in 1..(i - 1) : tasks[j].id # taskId
    ELSE 0

updateTaskSaveAlways(f, id, newDescription, now, ioOk) ==
    LET ld == loadTasks(f)
        taskId == parseInt(id)
    IN  IF isNaN(taskId) \/ Falsy(newDescription)
        THEN Reported(f, ld.msgs \o <<"InvalidInput">>)
        ELSE IF ld.value # "array" THEN TypeError(f, ld.msgs)
        ELSE LET taskIndex == findIndex(ld.tasks, taskId.val)
                 tasks == IF taskIndex = 0 THEN ld.tasks
                          ELSE [ld.tasks EXCEPT
                                  ![taskIndex].description = newDescription,
                                  ![taskIndex].updatedAt = now]
                 sv == saveTasks(tasks, ioOk)
             IN  Outcome(sv.saved, sv.file,
                         ld.msgs \o sv.msgs
                            \o (IF taskIndex = 0 THEN <<"NotFound">>
                                ELSE <<"Updated">>),
                         FALSE, <<>>, 0)

updateTask(f, id, newDescription, now, ioOk) ==
    LET ld == loadTasks(f)
        taskId == parseInt(id)
    IN  IF isNaN(taskId) \/ Falsy(newDescription)
        THEN Reported(f, ld.msgs \o <<"InvalidInput">>)
        ELSE IF ld.value # "array" THEN TypeError(f, ld.msgs)  \* x.findIndex
        ELSE LET taskIndex == findIndex(ld.tasks, taskId.val) IN
             IF taskIndex = 0 THEN Reported(f, ld.msgs \o <<"NotFound">>)
             ELSE LET tasks == [ld.tasks EXCEPT
                                  ![taskIndex].description = newDescription,
                                  ![taskIndex].updatedAt = now]
                      sv == saveTasks(tasks, ioOk)
                  IN  Outcome(sv.saved, sv.file,
                              ld.msgs \o sv.msgs \o <<"Updated">>,
                              FALSE, <<>>, 0)

deleteTaskRenumber(f, id, ioOk) ==
    LET ld == loadTasks(f)
        taskId == parseInt(id)
    IN  IF isNaN(taskId) THEN Reported(f, ld.msgs \o <<"InvalidInput">>)
        ELSE IF ld.value # "array" THEN TypeError(f, ld.msgs)
        ELSE LET kept == SelectSeq(ld.tasks, LAMBDA t : t.id # taskId.val)
                 updatedTasks == [i \in 1..Len(kept) |-> [kept[i] EXCEPT !.id = i]]
             IN  IF Len(kept) = Len(ld.tasks)
                 THEN Reported(f, ld.msgs \o <<"NotFound">>)
                 ELSE LET sv == saveTasks(updatedTasks, ioOk) IN
                      Outcome(sv.saved, sv.file,
                              ld.msgs \o sv.msgs \o <<"Deleted">>,
                              FALSE, <<>>, 0)

deleteTask(f, id, ioOk) ==
    LET ld == loadTasks(f)
        taskId == parseInt(id)
    IN  IF isNaN(taskId) THEN Reported(f, ld.msgs \o <<"InvalidInput">>)
        \* null.length, {}.filter
        ELSE IF ld.value # "array" THEN TypeError(f, ld.msgs)
        ELSE LET updatedTasks ==
                     SelectSeq(ld.tasks, LAMBDA t : t.id # taskId.val)
             IN  IF Len(updatedTasks) = Len(ld.tasks)
                 THEN Reported(f, ld.msgs \o <<"NotFound">>)
                 ELSE LET sv == saveTasks(updatedTasks, ioOk) IN
                      Outcome(sv.saved, sv.file,
                              ld.msgs \o sv.msgs \o <<"Deleted">>,
                              FALSE, <<>>, 0)

\* main's branch for mark-in-progress and mark-done: a notice, nothing else
markStatus(f, command, id) == Reported(f, <<"InDevelopment">>)

\* main with no command (help) or an unknown one (error, then help)
otherCommand(f, command) ==
    IF command = Undefined THEN Reported(f, <<"Help">>)
    ELSE Reported(f, <<"UnknownCommand", "Help">>)

\* ------------------------------------------------------------------ state
Invocation(cmd, id, desc, filter, r) ==
    [cmd |-> cmd, id |-> id, desc |-> desc, filter |-> filter,
     msgs |-> r.msgs, crashed |-> r.crashed, shown |-> r.shown,
     newId |-> r.newId]

NoInvocation ==
    [cmd |-> "none", id |-> <<>>, desc |-> Undefined, filter |-> Undefined,
     msgs |-> <<>>, crashed |-> FALSE, shown |-> <<>>, newId |-> 0]

Procs == {1, 2}
NoRequest == [cmd |-> "none", id |-> <<>>, desc |-> Undefined]

\* writeFileSync succeeds unless the environment lets it fail
IoOutcomes == IF diskFaulty THEN BOOLEAN ELSE {TRUE}
\* new Date(): time does not run backwards between two readings
Nows == {t \in {clock, clock + 1} : t <= MaxClock}

WithinBounds(f, r) ==
    r.newId > 0 => r.newId <= MaxId /\ Len(loadTasks(f).tasks) < MaxTasks

InitCommon ==
    /\ clock = 0
    /\ last = NoInvocation
    /\ created = {}
    /\ pc = [p \in Procs |-> "idle"]
    /\ req = [p \in Procs |-> NoRequest]
    /\ snap = [p \in Procs |-> AbsentFile]

\* an empty store: tasks.json absent or of zero length, a reliable disk
Init ==
    /\ file \in {AbsentFile, [kind |-> "empty", tasks |-> <<>>]}
    /\ diskFaulty = FALSE
    /\ InitCommon

Effect(r) ==
    /\ file' = IF r.saved THEN r.file ELSE file
    /\ created' = IF r.newId > 0 THEN created \cup {r.newId} ELSE created
    /\ UNCHANGED <<diskFaulty, pc, req, snap>>

Add ==
    \E description \in AddDescArgs, now \in Nows, ioOk \in IoOutcomes :
        LET r == addTask(file, description, now, ioOk) IN
        /\ WithinBounds(file, r)
        /\ Effect(r)
        /\ clock' = now
        /\ last' = Invocation("add", <<>>, description, Undefined, r)

List ==
    \E statusFilter \in FilterArgs :
        LET r == listTasks(file, statusFilter) IN
        /\ Effect(r)
        /\ UNCHANGED clock
        /\ last' = Invocation("list", <<>>, Undefined, statusFilter, r)

Update ==
    \E id \in IdArgs, newDescription \in UpdateDescArgs, now \in Nows,
       ioOk \in IoOutcomes :
        LET r == updateTask(file, id, newDescription, now, ioOk) IN
        /\ Effect(r)
        /\ clock' = now
        /\ last' = Invocation("update", id, newDescription, Undefined, r)

Delete ==
    \E id \in IdArgs, ioOk \in IoOutcomes :
        LET r == deleteTask(file, id, ioOk) IN
        /\ Effect(r)
        /\ UNCHANGED clock
        /\ last' = Invocation("delete", id, Undefined, Undefined, r)

Mark ==
    \E command \in MarkCommands, id \in MarkIdArgs :
        LET r == markStatus(file, command, id) IN
        /\ Effect(r)
        /\ UNCHANGED clock
        /\ last' = Invocation(command, id, Undefined, Undefined, r)

Other ==
    \E command \in OtherCommands :
        LET r == otherCommand(file, command) IN
        /\ Effect(r)
        /\ UNCHANGED clock
        /\ last' = Invocation(command, <<>>, Undefined, Undefined, r)

Next == Add \/ List \/ Update \/ Delete \/ Mark \/ Other

Spec == Init /\ [][Next]_vars

\* ------------------------------------------------- any content of tasks.json
\* well-formed stores a user may have left behind, with any statuses
SeedTask(id, status) ==
    [id |-> id, description |-> "a", status |-> status,
     createdAt |-> 0, updatedAt |-> 0]

SeedStores ==
    {<<>>} \cup {<<SeedTask(1, s), SeedTask(2, "todo")>> : s \in Statuses}

InitAnyFile ==
    /\ file \in {[kind |-> k, tasks |-> <<>>] : k \in FileKinds \ {"array"}}
                \cup {ArrayFile(ts) : ts \in SeedStores}
    /\ diskFaulty \in BOOLEAN
    /\ InitCommon

SpecAnyFile == InitAnyFile /\ [][Next]_vars

\* ------------------------------------------------- concurrent invocations
\* Two processes run mutating commands on the same tasks.json.  A process
\* reads the file (CLoad), then computes and, if the command saves, writes
\* the file (CFinish); the steps of the two processes interleave.  The
\* overlapping invocations read the same time from new Date().
ConcIdArgs == {<<"1">>, <<"2">>}
ConcRequests ==
    {[cmd |-> "add", id |-> <<>>, desc |-> "a"]}
    \cup {[cmd |-> "update", id |-> i, desc |-> "b"] : i \in ConcIdArgs}
    \cup {[cmd |-> "delete", id |-> i, desc |-> Undefined] : i \in ConcIdArgs}

Run(rq, f, now, ioOk) ==
    IF rq.cmd = "add" THEN addTask(f, rq.desc, now, ioOk)
    ELSE IF rq.cmd = "update" THEN updateTask(f, rq.id, rq.desc, now, ioOk)
    ELSE deleteTask(f, rq.id, ioOk)

CLoad(p) ==
    /\ pc[p] \in {"idle", "done"}
    /\ \E rq \in ConcRequests :
        /\ req' = [req EXCEPT ![p] = rq]
        /\ snap' = [snap EXCEPT ![p] = file]
        /\ pc' = [pc EXCEPT ![p] = "loaded"]
    /\ UNCHANGED <<file, clock, last, created, diskFaulty>>

CFinish(p) ==
    /\ pc[p] = "loaded"
    /\ \E ioOk \in IoOutcomes :
        LET r == Run(req[p], snap[p], clock, ioOk) IN
        /\ WithinBounds(snap[p], r)
        /\ file' = IF r.saved THEN r.file ELSE file
        /\ pc' = [pc EXCEPT ![p] = "done"]
    /\ UNCHANGED <<clock, last, created, diskFaulty, req, snap>>

NextConc == \E p \in Procs : CLoad(p) \/ CFinish(p)

SpecConc == Init /\ [][NextConc]_vars

\* ------------------------------------------------------------------ properties
Ids(tasks) == {tasks[i].id : i \in 1..Len(tasks)}
DistinctIds(tasks) ==
    \A i, j \in 1..Len(tasks) : i # j => tasks[i].id # tasks[j].id
MaxOf(S) == CHOOSE m \in S : \A x \in S : x <= m
RemoveAt(s, k) == SubSeq(s, 1, k - 1) \o SubSeq(s, k + 1, Len(s))

\* a text that writes a positive integer in decimal, and the integer it writes
DecimalDigits == <<"0", "1", "2", "3", "4", "5", "6", "7", "8", "9">>
IsDecimalDigit(c) == \E d \in 1..Len(DecimalDigits) : DecimalDigits[d] = c
RECURSIVE TextValue(_)
TextValue(s) ==
    IF Len(s) = 0 THEN 0
    ELSE 10 * TextValue(SubSeq(s, 1, Len(s) - 1))
         + (CHOOSE d \in 1..Len(DecimalDigits) : DecimalDigits[d] = s[Len(s)]) - 1
IsPositiveIntegerText(s) ==
    /\ Len(s) > 0
    /\ \A i \in 1..Len(s) : IsDecimalDigit(s[i])
    /\ TextValue(s) > 0

Added(inv) == inv.cmd = "add" /\ inv.newId > 0

\* C1: the id an add assigns differs from the id of every task created
\* before it, deleted tasks included (ids are never reused).
C1_IdsNeverReused ==
    [][Added(last') => last'.newId \notin created]_vars

\* C2: in every state reached from an empty store the ids in the file are
\* positive and pairwise distinct (in stored order they increase), and an add
\* assigns 1 to an empty collection and otherwise the maximum id present
\* plus one, which it stores in the record it appends.
C2_IdsDistinctMaxPlusOne ==
    /\ [](/\ \A i \in 1..Len(file.tasks) : file.tasks[i].id >= 1
          /\ DistinctIds(file.tasks)
          /\ \A i, j \in 1..Len(file.tasks) :
                i < j => file.tasks[i].id < file.tasks[j].id)
    /\ [][Added(last') =>
            /\ last'.newId = IF Len(file.tasks) = 0 THEN 1
                             ELSE MaxOf(Ids(file.tasks)) + 1
            /\ \A i \in 1..Len(file.tasks) : file.tasks[i].id < last'.newId
            /\ Len(file'.tasks) = Len(file.tasks) + 1
            /\ file'.tasks[Len(file'.tasks)].id = last'.newId]_vars

\* C2 witness: an add after a deletion took max + 1 (3), not the free id 1
C2_Witness ==
    /\ Added(last) /\ last.newId = 3
    /\ Len(file.tasks) = 2 /\ file.tasks[1].id = 2 /\ file.tasks[2].id = 3

\* C3: mark-done <id> of an existing task sets that task's stored status to
\* done, so that list done then shows exactly that task when no other task
\* is done.
C3_MarkDoneSetsStatus ==
    [][(/\ last'.cmd = "mark-done"
        /\ IsPositiveIntegerText(last'.id)
        /\ TextValue(last'.id) \in Ids(file.tasks)
        /\ \A i \in 1..Len(file.tasks) : file.tasks[i].status # "done")
       => /\ \E i \in 1..Len(file'.tasks) :
                /\ file'.tasks[i].id = TextValue(last'.id)
                /\ file'.tasks[i].status = "done"
          /\ LET shown == listTasks(file', "done").shown IN
             /\ Len(shown) = 1
             /\ shown[1].id = TextValue(last'.id)]_vars

\* C4: update with a well-formed id that no task has, and a non-empty
\* description, reports NotFound and leaves the file as it was.
C4_UpdateUnknownIdNotFound ==
    [][(/\ last'.cmd = "update"
        /\ IsPositiveIntegerText(last'.id)
        /\ TextValue(last'.id) \notin Ids(file.tasks)
        /\ ~Falsy(last'.desc))
       => /\ last'.msgs = <<"NotFound">>
          /\ ~last'.crashed
          /\ file' = file]_vars

\* C4 witness: update of an id absent from a store that holds tasks
C4_Witness ==
    /\ last.cmd = "update" /\ last.msgs = <<"NotFound">>
    /\ IsPositiveIntegerText(last.id) /\ ~Falsy(last.desc)
    /\ Len(file.tasks) > 0
    /\ TextValue(last.id) \notin Ids(file.tasks)

C6_AnyContentTolerated ==
    last.cmd \in {"add", "list", "update", "delete"}
    => /\ ~last.crashed
       /\ Len(last.msgs) > 0
       /\ file.kind # "array"
          => LET ld == loadTasks(file) IN
             /\ ld.value = "array" /\ ld.tasks = <<>>
             /\ ("Corrupt" \in {ld.msgs[i] : i \in 1..Len(ld.msgs)})
                  <=> (file.kind \in {"garbage", "object", "null"})

\* C7: list with an unrecognized filter fails with InvalidInput whatever the
\* store holds, an empty store included; with a recognized filter it shows
\* exactly the tasks of that status in stored order, or signals an empty
\* result.
C7_ListFilter ==
    last.cmd = "list"
    => LET filter == toLowerCase(IF Falsy(last.filter) THEN "all"
                                 ELSE last.filter)
           matching == SelectSeq(file.tasks,
                          LAMBDA t : filter = "all" \/ t.status = filter)
       IN  IF filter \notin {"all", "todo", "in-progress", "done"}
           THEN last.msgs = <<"InvalidInput">> /\ last.shown = <<>>
           ELSE /\ last.shown = matching
                /\ last.msgs = IF Len(matching) > 0 THEN <<"Listed">>
                               ELSE IF Len(file.tasks) = 0 THEN <<"NoTasks">>
                               ELSE <<"NoMatch">>

\* C8: update with an id argument that is no positive integer (letters, zero,
\* negative, digits followed by other characters) fails with InvalidInput and
\* changes nothing.
C8_UpdateRejectsInvalidId ==
    [][(last'.cmd = "update" /\ ~IsPositiveIntegerText(last'.id))
       => last'.msgs = <<"InvalidInput">> /\ file' = file]_vars

\* C9: add with an empty or missing description fails with InvalidInput and
\* leaves the file as it was; add with a description keeps every record in
\* place and appends one record, of status todo, createdAt = updatedAt.
C9_AddAppendsOne ==
    [][last'.cmd = "add"
       => IF Falsy(last'.desc)
          THEN last'.msgs = <<"InvalidInput">> /\ file' = file
          ELSE LET old == file.tasks
                   new == file'.tasks
                   t == new[Len(new)]
               IN  /\ file'.kind = "array"
                   /\ Len(new) = Len(old) + 1
                   /\ SubSeq(new, 1, Len(old)) = old
                   /\ t.status = "todo"
                   /\ t.createdAt = t.updatedAt
                   /\ t.description = last'.desc
                   /\ last'.msgs = <<"Added">>]_vars

\* C9 witness: a task was appended behind a record updated after its creation
C9_Witness ==
    /\ Added(last)
    /\ Len(file.tasks) = 2
    /\ file.tasks[1].updatedAt # file.tasks[1].createdAt
    /\ file.tasks[2].id = last.newId

\* C10: with loads and saves of two invocations interleaved in any order,
\* the ids in the file are positive and pairwise distinct in every state.
C10_ConcurrentIdsDistinct ==
    /\ DistinctIds(file.tasks)
    /\ \A i \in 1..Len(file.tasks) : file.tasks[i].id >= 1

\* C10 witness: two adds read the same non-empty file and both saved; the
\* later save overwrote the earlier one, the file holds one new record
C10_Witness ==
    /\ \A p \in Procs : pc[p] = "done" /\ req[p].cmd = "add"
    /\ snap[1] = snap[2]
    /\ Len(snap[1].tasks) = 1
    /\ Len(file.tasks) = 2

====
